---- MODULE Spec2Model ----
(***************************************************************************)
(* The coding orchestrator (amplifier-module-orchestrator-coding), its     *)
(* context manager (amplifier-module-context-coding) and the request       *)
(* translation of the OpenAI provider (amplifier-module-provider-openai-v2) *)
(* as a state machine.  Strings are sequences of string pieces, so that    *)
(* joining and formatting are concatenations that can be compared.        *)
(***************************************************************************)
EXTENDS Integers, Sequences, FiniteSets, TLC

(* ------------------------------ bounds --------------------------------- *)
\* largest configured max_iterations that is explored
MaxIterations == 2
\* largest number of content blocks in one provider response
MaxBlocks == 2
\* number of tool calls the provider may request in one session
MaxCallIds == 2
\* largest number of output items in one wire response
MaxItems == 2
\* largest number of tools in one request
MaxTools == 2

(* --------------------------- value tables ------------------------------ *)
\* identifiers the provider gives its tool calls (fresh, in this order)
CallIds == <<"c1", "c2", "c3", "c4", "c5">>
\* the arguments the provider gives the tool call with the n-th identifier
Args == <<"x1", "x2", "x3", "x4", "x5">>
\* the text of a Text block at position p of a response
Texts == <<"a", "b", "c", "d">>
\* the continuity token of the reasoning block of the n-th response
Tokens == <<"k1", "k2", "k3", "k4", "k5", "k6">>
\* kinds of content block a scripted provider answers with; call_read asks for the
\* registered tool, call_nope for a name that is not registered
Kinds == {"text", "reasoning", "call_read", "call_nope"}
Prompt == <<"p">>
NoResult == [success |-> FALSE, output |-> <<>>, error |-> <<"none">>, set |-> FALSE]

(* ----------------------------- sequences ------------------------------- *)
RECURSIVE SeqsUpTo(_, _)
SeqsUpTo(S, n) ==
    IF n = 0 THEN {<<>>}
    ELSE LET shorter == SeqsUpTo(S, n - 1)
         IN shorter \cup {Append(s, x) : s \in {t \in shorter : Len(t) = n - 1}, x \in S}

Range(f) == {f[x] : x \in DOMAIN f}

(* --------------------------- message models ---------------------------- *)
TextBlock(text) == [type |-> "text", text |-> text]
ReasoningBlock(content) == [type |-> "reasoning", content |-> content, summary |-> <<>>]
ToolCallBlock(id, name, input) == [type |-> "tool_call", id |-> id, name |-> name, input |-> input]
ToolResultBlock(tool_call_id, output) ==
    [type |-> "tool_result", tool_call_id |-> tool_call_id, output |-> output]
\* a field that was not given
None == "None"
Message(role, content) == [role |-> role, content |-> content, tool_call_id |-> None]
ToolCall(id, name, arguments) == [id |-> id, name |-> name, arguments |-> arguments]
ToolSpec(name) == [name |-> name]
ChatRequest(msgs, tls) == [messages |-> msgs, tools |-> tls]
ToolResultOk(output) == [success |-> TRUE, output |-> output, error |-> <<>>, set |-> TRUE]
ToolResultErr(message) ==
    [success |-> FALSE, output |-> <<>>, error |-> <<"{'message': ">> \o message \o <<"}">>, set |-> TRUE]

VARIABLES
    max_iterations,   \* CodingOrchestrator.max_iterations (config)
    providers,        \* the providers mapping handed to execute (names, in order)
    tools,            \* the tool registry handed to execute (names, in registration order)
    messages,         \* CodingContextManager.messages
    pc,               \* where execute stands
    iteration,        \* execute's local counter
    tool_calls,       \* the tool calls of the response being served
    task_pc,          \* per dispatched _execute_tool coroutine: where it stands
    tool_results,     \* per dispatched coroutine: what it returns
    task_log,         \* per dispatched coroutine: hook events and tool invocations, in order
    completed,        \* the order in which the coroutines of this turn finished
    outcome,          \* "none", "returned", "raised"
    returned,         \* the text execute returned
    requests,         \* every ChatRequest handed to provider.complete, in order
    responses,        \* the tool_calls of every response provider.complete returned, in order
    response,         \* the response provider.complete returned last
    idsUsed,          \* how many tool-call identifiers the provider has issued
    wire_requests,    \* how many times the provider called client.responses.create
    provider_failed,  \* whether a provider call has raised
    cancel_requested_at, \* -1, or the number of provider calls made when the caller asked to cancel
    adapter_pc,       \* the provider's conversions on their own: "off", "ready", "done"
    adapter_in,       \* the value handed to a conversion
    adapter_out,      \* what the conversion returned
    lists,            \* the context on its own: the list objects in memory, by address
    messages_ref,     \* the address of the list CodingContextManager.messages is bound to (0: not followed)
    held              \* the lists get_messages handed out: address, and content as its holder left it

vars == <<max_iterations, providers, tools, messages, pc, iteration, tool_calls, task_pc,
          tool_results, task_log, completed, outcome, returned, requests, responses, response, idsUsed,
          wire_requests, provider_failed, cancel_requested_at, adapter_pc, adapter_in, adapter_out,
          lists, messages_ref, held>>

taskVars == <<tool_calls, task_pc, tool_results, task_log, completed>>
logVars == <<requests, responses, response, idsUsed, wire_requests>>
adapterVars == <<adapter_pc, adapter_in, adapter_out>>
contextVars == <<lists, messages_ref, held>>
envVars == <<provider_failed, cancel_requested_at, adapter_pc, adapter_in, adapter_out,
             lists, messages_ref, held>>

(* ------------------------- the scripted provider ----------------------- *)
NumCalls(kinds) == Cardinality({i \in 1..Len(kinds) : kinds[i] \in {"call_read", "call_nope"}})
CallsBefore(kinds, p) == Cardinality({i \in 1..(p - 1) : kinds[i] \in {"call_read", "call_nope"}})

\* the content blocks of the n-th response, of the given kinds, with fresh call identifiers
ResponseContent(kinds, n, used) ==
    [p \in 1..Len(kinds) |->
        CASE kinds[p] = "text" -> TextBlock(<<Texts[p]>>)
          [] kinds[p] = "reasoning" -> ReasoningBlock(<<Tokens[n]>>)
          [] kinds[p] = "call_read" ->
                ToolCallBlock(CallIds[used + CallsBefore(kinds, p) + 1], "read",
                              Args[used + CallsBefore(kinds, p) + 1])
          [] OTHER ->
                ToolCallBlock(CallIds[used + CallsBefore(kinds, p) + 1], "nope",
                              Args[used + CallsBefore(kinds, p) + 1])]

RECURSIVE ToolCallsOf(_)
\* ChatResponse.tool_calls: the tool calls among the content blocks, in order
ToolCallsOf(content) ==
    IF content = <<>> THEN <<>>
    ELSE IF Head(content).type = "tool_call"
         THEN <<ToolCall(Head(content).id, Head(content).name, Head(content).input)>>
              \o ToolCallsOf(Tail(content))
         ELSE ToolCallsOf(Tail(content))

ChatResponse(content) == [content |-> content, tool_calls |-> ToolCallsOf(content)]

(* --------------------------- context manager --------------------------- *)
\* a context that keeps only the newest message
add_message_replacing(msgs, message) == <<message>>

add_message(msgs, message) == Append(msgs, message)
\* a context that hands out only its newest message
get_messages_newest(msgs) == IF msgs = <<>> THEN <<>> ELSE <<msgs[Len(msgs)]>>

get_messages(msgs) == msgs

(* ----------------------------- orchestrator ---------------------------- *)
max_iterations_message == <<"Max iterations reached.">>

RECURSIVE JoinBlank(_)
JoinBlank(parts) ==
    IF parts = <<>> THEN <<>>
    ELSE IF Len(parts) = 1 THEN Head(parts)
    ELSE Head(parts) \o <<"\n\n">> \o JoinBlank(Tail(parts))

RECURSIVE TextParts(_)
TextParts(content_blocks) ==
    IF content_blocks = <<>> THEN <<>>
    ELSE IF Head(content_blocks).type = "text"
         THEN <<Head(content_blocks).text>> \o TextParts(Tail(content_blocks))
         ELSE TextParts(Tail(content_blocks))

\* an extraction that stops at the first Text block
_extract_text_first(content_blocks) ==
    IF TextParts(content_blocks) = <<>> THEN <<>> ELSE Head(TextParts(content_blocks))

_extract_text(content_blocks) == JoinBlank(TextParts(content_blocks))

\* an off-by-one cap test: one iteration too many before the forced-final call
MaxIterationsExceeded(iter) == iter > max_iterations

\* line 82: the cap test at the top of the loop
MaxIterationsReached(iter) == iter >= max_iterations

\* the inverted test: a response without tool calls is dispatched, one with is final
NoToolCallsInverted(tcs) == tcs # <<>>

\* line 106: the response asks for no tool
NoToolCalls(tcs) == tcs = <<>>

tools_specs == [i \in DOMAIN tools |-> ToolSpec(tools[i])]

\* the assistant message appended for a response that requests tools
ToolCallMessage(tcs) ==
    Message("assistant", [i \in 1..Len(tcs) |-> ToolCallBlock(tcs[i].id, tcs[i].name, tcs[i].arguments)])

\* the assistant message appended for a response that ends the loop
TextMessage(text_content) == Message("assistant", <<TextBlock(text_content)>>)

ResultOutput(result) ==
    IF result.success THEN result.output ELSE <<"Error: ">> \o result.error

\* results paired with the calls in the order the coroutines finished
FunctionMessagesAsCompleted(tcs, results) ==
    [i \in 1..Len(tcs) |->
        Message("function", <<ToolResultBlock(tcs[i].id, ResultOutput(results[completed[i]]))>>)]

\* all results of a turn put in one function message
FunctionMessagesBatched(tcs, results) ==
    <<Message("function",
              [i \in 1..Len(tcs) |-> ToolResultBlock(tcs[i].id, ResultOutput(results[i]))])>>

\* the function messages appended after gather, one per tool call, in zip order
FunctionMessages(tcs, results) ==
    [i \in 1..Len(tcs) |->
        Message("function", <<ToolResultBlock(tcs[i].id, ResultOutput(results[i]))>>)]

(* -------------------- provider: request translation -------------------- *)
RECURSIVE JoinSpace(_)
JoinSpace(parts) ==
    IF parts = <<>> THEN <<>>
    ELSE IF Len(parts) = 1 THEN Head(parts)
    ELSE Head(parts) \o <<" ">> \o JoinSpace(Tail(parts))

RECURSIVE ExtractParts(_)
ExtractParts(content) ==
    IF content = <<>> THEN <<>>
    ELSE IF Head(content).type = "text" THEN <<Head(content).text>> \o ExtractParts(Tail(content))
    ELSE IF Head(content).type = "thinking"
         THEN <<<<"[Thinking: ">> \o Head(content).thinking \o <<"]">>>> \o ExtractParts(Tail(content))
    ELSE ExtractParts(Tail(content))

_extract_text_from_content(content) == JoinSpace(ExtractParts(content))

_convert_tool_call_block_to_function_call(block) ==
    [type |-> "function_call", call_id |-> block.id, name |-> block.name,
     arguments |-> <<"json:", block.input>>]

_convert_tool_result_block_to_function_output(block) ==
    [type |-> "function_call_output", call_id |-> block.tool_call_id, output |-> block.output]

_convert_reasoning_block_to_reasoning(block) ==
    [type |-> "reasoning", content |-> block.content, summary |-> block.summary]

MessageItem(text) ==
    [type |-> "message", role |-> "assistant",
     content |-> <<[type |-> "output_text", text |-> text, annotations |-> <<>>]>>]

RECURSIVE OutputItems(_)
\* lines 362-370: the items of the non-text blocks, in block order
OutputItems(content) ==
    IF content = <<>> THEN <<>>
    ELSE (CASE Head(content).type = "tool_call" ->
                  <<_convert_tool_call_block_to_function_call(Head(content))>>
            [] Head(content).type = "tool_result" ->
                  <<_convert_tool_result_block_to_function_output(Head(content))>>
            [] Head(content).type = "reasoning" ->
                  <<_convert_reasoning_block_to_reasoning(Head(content))>>
            [] OTHER -> <<>>) \o OutputItems(Tail(content))

_convert_assistant_message_content(msg) ==
    LET text_blocks == TextParts(msg.content)
    IN OutputItems(msg.content)
       \o (IF text_blocks # <<>> THEN <<MessageItem(JoinSpace(text_blocks))>> ELSE <<>>)

_convert_function_message(msg) ==
    [type |-> "function_call_output",
     call_id |-> IF msg.tool_call_id # None THEN msg.tool_call_id ELSE "unknown",
     output |-> _extract_text_from_content(msg.content)]

RECURSIVE _convert_messages_to_openai_format(_)
_convert_messages_to_openai_format(msgs) ==
    IF msgs = <<>> THEN <<>>
    ELSE (CASE Head(msgs).role \in {"user", "developer", "system"} ->
                  <<[role |-> Head(msgs).role,
                     content |-> _extract_text_from_content(Head(msgs).content)]>>
            [] Head(msgs).role = "assistant" -> _convert_assistant_message_content(Head(msgs))
            [] Head(msgs).role = "function" -> <<_convert_function_message(Head(msgs))>>
            [] OTHER -> <<>>) \o _convert_messages_to_openai_format(Tail(msgs))

\* execute's state before it is called, whatever registry it is handed
InitExecute ==
    /\ max_iterations \in 0..MaxIterations
    /\ providers \in {<<>>, <<"openai-v2">>}
    /\ messages = <<>>
    /\ pc = "idle"
    /\ iteration = 0
    /\ tool_calls = <<>>
    /\ task_pc = <<>>
    /\ tool_results = <<>>
    /\ task_log = <<>>
    /\ completed = <<>>
    /\ outcome = "none"
    /\ returned = <<>>
    /\ requests = <<>>
    /\ responses = <<>>
    /\ response = ChatResponse(<<>>)
    /\ idsUsed = 0
    /\ wire_requests = 0
    /\ provider_failed = FALSE
    /\ cancel_requested_at = -1
    /\ adapter_pc = "off"
    /\ adapter_in = <<>>
    /\ adapter_out = <<>>
    /\ lists = <<>>
    /\ messages_ref = 0
    /\ held = <<>>

\* execute is handed a registry holding the tool "read"
Init ==
    /\ tools = <<"read">>
    /\ InitExecute

\* execute that forgets to append the prompt
ExecuteWithoutPrompt ==
    /\ pc = "idle"
    /\ messages' = messages
    /\ IF providers = <<>>
       THEN /\ pc' = "done"
            /\ outcome' = "raised"
       ELSE /\ pc' = "loop"
            /\ outcome' = outcome
    /\ iteration' = 0
    /\ UNCHANGED envVars
    /\ UNCHANGED <<max_iterations, providers, tools, returned>>
    /\ UNCHANGED taskVars
    /\ UNCHANGED logVars

\* execute that enters the loop without looking for a provider
ExecuteWithoutProviderCheck ==
    /\ pc = "idle"
    /\ messages' = add_message(messages, Message("user", <<TextBlock(Prompt)>>))
    /\ pc' = "loop"
    /\ iteration' = 0
    /\ UNCHANGED envVars
    /\ UNCHANGED <<max_iterations, providers, tools, outcome, returned>>
    /\ UNCHANGED taskVars
    /\ UNCHANGED logVars

\* execute that picks the provider before it appends the prompt
ExecuteProviderFirst ==
    /\ pc = "idle"
    /\ IF providers = <<>>
       THEN /\ messages' = messages
            /\ pc' = "done"
            /\ outcome' = "raised"
       ELSE /\ messages' = add_message(messages, Message("user", <<TextBlock(Prompt)>>))
            /\ pc' = "loop"
            /\ outcome' = outcome
    /\ iteration' = 0
    /\ UNCHANGED envVars
    /\ UNCHANGED <<max_iterations, providers, tools, returned>>
    /\ UNCHANGED taskVars
    /\ UNCHANGED logVars

\* execute, lines 63-77: append the prompt, pick the provider, build the tool specs
Execute ==
    /\ pc = "idle"
    /\ messages' = add_message(messages, Message("user", <<TextBlock(Prompt)>>))
    /\ IF providers = <<>>
       THEN /\ pc' = "done"
            /\ outcome' = "raised"
       ELSE /\ pc' = "loop"
            /\ outcome' = outcome
    /\ iteration' = 0
    /\ UNCHANGED envVars
    /\ UNCHANGED <<max_iterations, providers, tools, returned>>
    /\ UNCHANGED taskVars
    /\ UNCHANGED logVars

\* lines 82-92: the cap is reached; inject the user message and ask without tools
CallProviderFinal ==
    /\ pc = "loop"
    /\ MaxIterationsReached(iteration)
    /\ messages' = add_message(messages, Message("user", <<TextBlock(max_iterations_message)>>))
    /\ requests' = Append(requests, ChatRequest(get_messages(messages'), <<>>))
    /\ wire_requests' = wire_requests + 1
    /\ pc' = "awaiting_final"
    /\ UNCHANGED envVars
    /\ UNCHANGED <<max_iterations, providers, tools, iteration, outcome, returned, responses, response, idsUsed>>
    /\ UNCHANGED taskVars

\* a loop that asks the provider without counting the iteration
CallProviderNotCounting ==
    /\ pc = "loop"
    /\ ~MaxIterationsReached(iteration)
    /\ iteration' = iteration
    /\ requests' = Append(requests, ChatRequest(get_messages(messages), tools_specs))
    /\ wire_requests' = wire_requests + 1
    /\ pc' = "awaiting"
    /\ UNCHANGED envVars
    /\ UNCHANGED <<max_iterations, providers, tools, messages, outcome, returned, responses, response, idsUsed>>
    /\ UNCHANGED taskVars

\* lines 97-101: a normal iteration asks with the full history and the tool specs
CallProvider ==
    /\ pc = "loop"
    /\ ~MaxIterationsReached(iteration)
    /\ iteration' = iteration + 1
    /\ requests' = Append(requests, ChatRequest(get_messages(messages), tools_specs))
    /\ wire_requests' = wire_requests + 1
    /\ pc' = "awaiting"
    /\ UNCHANGED envVars
    /\ UNCHANGED <<max_iterations, providers, tools, messages, outcome, returned, responses, response, idsUsed>>
    /\ UNCHANGED taskVars

\* the forced-final response served like any other: its tool calls are dispatched
FinalResponseDispatches ==
    /\ pc = "awaiting_final"
    /\ \E kinds \in SeqsUpTo(Kinds, MaxBlocks) :
        /\ NumCalls(kinds) <= MaxCallIds - idsUsed
        /\ LET resp == ChatResponse(ResponseContent(kinds, Len(responses) + 1, idsUsed))
               tcs == resp.tool_calls
               text_content == _extract_text(resp.content)
           IN /\ responses' = Append(responses, resp.tool_calls)
              /\ response' = resp
              /\ idsUsed' = idsUsed + NumCalls(kinds)
              /\ IF tcs = <<>>
                 THEN /\ messages' = add_message(messages, TextMessage(text_content))
                      /\ returned' = text_content
                      /\ pc' = "done"
                      /\ outcome' = "returned"
                      /\ UNCHANGED taskVars
                 ELSE /\ messages' = add_message(messages, ToolCallMessage(tcs))
                      /\ tool_calls' = tcs
                      /\ task_pc' = [i \in 1..Len(tcs) |-> "pre"]
                      /\ tool_results' = [i \in 1..Len(tcs) |-> NoResult]
                      /\ task_log' = [i \in 1..Len(tcs) |-> <<>>]
                      /\ completed' = <<>>
                      /\ pc' = "gathering"
                      /\ UNCHANGED <<returned, outcome>>
    /\ UNCHANGED envVars
    /\ UNCHANGED <<max_iterations, providers, tools, iteration, requests, wire_requests>>

\* lines 93-95: the forced-final response ends execute with its text
FinalResponse ==
    /\ pc = "awaiting_final"
    /\ \E kinds \in SeqsUpTo(Kinds, MaxBlocks) :
        /\ NumCalls(kinds) <= MaxCallIds - idsUsed
        /\ LET resp == ChatResponse(ResponseContent(kinds, Len(responses) + 1, idsUsed))
               text_content == _extract_text(resp.content)
           IN /\ responses' = Append(responses, resp.tool_calls)
              /\ response' = resp
              /\ idsUsed' = idsUsed + NumCalls(kinds)
              /\ messages' = add_message(messages, TextMessage(text_content))
              /\ returned' = text_content
    /\ pc' = "done"
    /\ outcome' = "returned"
    /\ UNCHANGED envVars
    /\ UNCHANGED <<max_iterations, providers, tools, iteration, requests, wire_requests>>
    /\ UNCHANGED taskVars

\* lines 101-119: a response to a normal call either ends execute or dispatches its tool calls
Response ==
    /\ pc = "awaiting"
    /\ \E kinds \in SeqsUpTo(Kinds, MaxBlocks) :
        /\ NumCalls(kinds) <= MaxCallIds - idsUsed
        /\ LET resp == ChatResponse(ResponseContent(kinds, Len(responses) + 1, idsUsed))
               tcs == resp.tool_calls
               text_content == _extract_text(resp.content)
           IN /\ responses' = Append(responses, resp.tool_calls)
              /\ response' = resp
              /\ idsUsed' = idsUsed + NumCalls(kinds)
              /\ IF NoToolCalls(tcs)
                 THEN /\ messages' = add_message(messages, TextMessage(text_content))
                      /\ returned' = text_content
                      /\ pc' = "done"
                      /\ outcome' = "returned"
                      /\ UNCHANGED taskVars
                 ELSE /\ messages' = add_message(messages, ToolCallMessage(tcs))
                      /\ tool_calls' = tcs
                      /\ task_pc' = [i \in 1..Len(tcs) |-> "pre"]
                      /\ tool_results' = [i \in 1..Len(tcs) |-> NoResult]
                      /\ task_log' = [i \in 1..Len(tcs) |-> <<>>]
                      /\ completed' = <<>>
                      /\ pc' = "gathering"
                      /\ UNCHANGED <<returned, outcome>>
    /\ UNCHANGED envVars
    /\ UNCHANGED <<max_iterations, providers, tools, iteration, requests, wire_requests>>

(* ------------------------------ _execute_tool -------------------------- *)
\* no lookup: every requested name is taken to be registered
ToolKnownAlways(name) == TRUE

ToolKnown(name) == \E i \in DOMAIN tools : tools[i] = name
NotFoundMessage(name) == <<"Tool '", name, "' not found">>
\* what a registered tool's execute may return for the given arguments
ToolReturnValues(arguments) ==
    {ToolResultOk(<<"out:", arguments>>), ToolResultErr(<<"denied:", arguments>>)}
\* str(e) of what a registered tool's execute may raise
ToolException(arguments) == <<"boom:", arguments>>
\* str(e) of what a failing hooks.emit raises
EmitException == <<"emit failed">>

SetTask(i, newpc, result, events) ==
    /\ task_pc' = [task_pc EXCEPT ![i] = newpc]
    /\ tool_results' = [tool_results EXCEPT ![i] = result]
    /\ task_log' = [task_log EXCEPT ![i] = @ \o events]
    /\ completed' = IF newpc \in {"done", "raised"} THEN Append(completed, i) ELSE completed
    /\ UNCHANGED envVars
    /\ UNCHANGED <<tool_calls, max_iterations, providers, tools, messages, pc, iteration, outcome, returned>>
    /\ UNCHANGED logVars

\* lines 149-172: tool:pre was emitted; look the tool up and either report it missing
\* (entering the tool:error emission) or invoke its execute
EmitPre(i) ==
    /\ task_pc[i] = "pre"
    /\ IF ToolKnown(tool_calls[i].name)
       THEN SetTask(i, "executing", tool_results[i], <<"tool:pre", "execute">>)
       ELSE SetTask(i, "error_notfound",
                    ToolResultErr(NotFoundMessage(tool_calls[i].name)), <<"tool:pre">>)

\* line 172: the tool's execute returns; the tool:post emission starts
ToolReturns(i) ==
    /\ task_pc[i] = "executing"
    /\ \E result \in ToolReturnValues(tool_calls[i].arguments) :
        SetTask(i, "post", result, <<"execute:returned">>)

\* the tool's exception is not caught: the coroutine ends with it
ToolRaisesUncaught(i) ==
    /\ task_pc[i] = "executing"
    /\ SetTask(i, "raised", tool_results[i], <<"execute:raised">>)

\* lines 172, 185-189: the tool's execute raises; the handler builds the error result
ToolRaises(i) ==
    /\ task_pc[i] = "executing"
    /\ SetTask(i, "error_raised", ToolResultErr(ToolException(tool_calls[i].arguments)),
               <<"execute:raised">>)

\* a coroutine that returns the tool's result without the tool:post emission
EmitPostSilent(i) ==
    /\ task_pc[i] = "post"
    /\ SetTask(i, "done", tool_results[i], <<>>)

\* lines 175-184: tool:post was emitted; the coroutine returns the tool's result
EmitPost(i) ==
    /\ task_pc[i] = "post"
    /\ SetTask(i, "done", tool_results[i], <<"tool:post">>)

\* lines 162-170 and 189-197: tool:error was emitted; the coroutine returns the error result
EmitError(i) ==
    /\ task_pc[i] \in {"error_notfound", "error_raised"}
    /\ SetTask(i, "done", tool_results[i], <<"tool:error">>)

\* a loop that moves on to the next provider call without awaiting the gathered tool calls
GatherNotAwaited ==
    /\ pc = "gathering"
    /\ pc' = "loop"
    /\ UNCHANGED envVars
    /\ UNCHANGED <<max_iterations, providers, tools, messages, iteration, outcome, returned>>
    /\ UNCHANGED taskVars
    /\ UNCHANGED logVars

\* lines 120-127: gather returns the results in task order; append one function message each
Gather ==
    /\ pc = "gathering"
    /\ \A i \in DOMAIN task_pc : task_pc[i] = "done"
    /\ messages' = messages \o FunctionMessages(tool_calls, tool_results)
    /\ pc' = "loop"
    /\ UNCHANGED envVars
    /\ UNCHANGED <<max_iterations, providers, tools, iteration, outcome, returned>>
    /\ UNCHANGED taskVars
    /\ UNCHANGED logVars

Next ==
    \/ Execute
    \/ CallProviderFinal
    \/ CallProvider
    \/ FinalResponse
    \/ Response
    \/ \E i \in DOMAIN task_pc : EmitPre(i)
    \/ \E i \in DOMAIN task_pc : ToolReturns(i)
    \/ \E i \in DOMAIN task_pc : ToolRaises(i)
    \/ \E i \in DOMAIN task_pc : EmitPost(i)
    \/ \E i \in DOMAIN task_pc : EmitError(i)
    \/ Gather

Spec == Init /\ [][Next]_vars

(* -------------------- any tool registry -------------------- *)
\* the registries execute may be handed: none registered, or the tool "read"
Registries == {<<>>, <<"read">>}

\* execute handed any of the registries
InitAnyTools ==
    /\ tools \in Registries
    /\ InitExecute

\* the orchestrator over every registry, the empty one included
SpecAnyTools == InitAnyTools /\ [][Next]_vars

(* ---------------- hooks.emit raising (a failing observer) -------------- *)
\* lines 149, 185-189: tool:pre raises inside the try; the handler builds the error
\* result and the tool is not looked up or invoked
EmitPreFails(i) ==
    /\ task_pc[i] = "pre"
    /\ SetTask(i, "error_raised", ToolResultErr(EmitException), <<"tool:pre!">>)

\* lines 175, 185-189: tool:post raises inside the try; the handler replaces the
\* tool's result by the error result
EmitPostFails(i) ==
    /\ task_pc[i] = "post"
    /\ SetTask(i, "error_raised", ToolResultErr(EmitException), <<"tool:post!">>)

\* lines 162, 185-189: the tool:error of the not-found branch raises inside the try
EmitErrorNotFoundFails(i) ==
    /\ task_pc[i] = "error_notfound"
    /\ SetTask(i, "error_raised", ToolResultErr(EmitException), <<"tool:error!">>)

\* line 189: the tool:error of the handler raises; nothing catches it and the
\* coroutine ends with the exception
EmitErrorFails(i) ==
    /\ task_pc[i] = "error_raised"
    /\ SetTask(i, "raised", tool_results[i], <<"tool:error!">>)

\* line 120: gather hands the first exception of a coroutine to execute, which
\* does not catch it; the sibling coroutines are left running
GatherRaises ==
    /\ pc = "gathering"
    /\ \E i \in DOMAIN task_pc : task_pc[i] = "raised"
    /\ pc' = "done"
    /\ outcome' = "raised"
    /\ UNCHANGED envVars
    /\ UNCHANGED <<max_iterations, providers, tools, messages, iteration, returned>>
    /\ UNCHANGED taskVars
    /\ UNCHANGED logVars

NextEmitFail ==
    \/ Next
    \/ \E i \in DOMAIN task_pc : EmitPreFails(i)
    \/ \E i \in DOMAIN task_pc : EmitPostFails(i)
    \/ \E i \in DOMAIN task_pc : EmitErrorNotFoundFails(i)
    \/ \E i \in DOMAIN task_pc : EmitErrorFails(i)
    \/ GatherRaises

\* the orchestrator with observers whose emission may raise
SpecEmitFail == Init /\ [][NextEmitFail]_vars

(* -------------------- a provider call that fails -------------------- *)
\* a loop that asks the provider again when a call fails
ProviderRaisesRetried ==
    /\ pc = "awaiting"
    /\ provider_failed' = TRUE
    /\ wire_requests' = wire_requests + 1
    /\ UNCHANGED <<cancel_requested_at, adapterVars, contextVars>>
    /\ UNCHANGED <<max_iterations, providers, tools, messages, pc, iteration, outcome, returned>>
    /\ UNCHANGED <<requests, responses, response, idsUsed>>
    /\ UNCHANGED taskVars

\* provider lines 203-208, orchestrator line 101: client.responses.create raises; complete
\* has no handler and execute has none, so the exception leaves execute
ProviderRaises ==
    /\ pc = "awaiting"
    /\ provider_failed' = TRUE
    /\ pc' = "done"
    /\ outcome' = "raised"
    /\ UNCHANGED <<cancel_requested_at, adapterVars, contextVars>>
    /\ UNCHANGED <<max_iterations, providers, tools, messages, iteration, returned>>
    /\ UNCHANGED taskVars
    /\ UNCHANGED logVars

\* provider lines 203-208, orchestrator line 91: the same for the forced-final call
FinalProviderRaises ==
    /\ pc = "awaiting_final"
    /\ provider_failed' = TRUE
    /\ pc' = "done"
    /\ outcome' = "raised"
    /\ UNCHANGED <<cancel_requested_at, adapterVars, contextVars>>
    /\ UNCHANGED <<max_iterations, providers, tools, messages, iteration, returned>>
    /\ UNCHANGED taskVars
    /\ UNCHANGED logVars

NextProviderFail ==
    \/ Next
    \/ ProviderRaises
    \/ FinalProviderRaises

SpecProviderFail == Init /\ [][NextProviderFail]_vars

(* -------------------- a caller that asks to cancel -------------------- *)
\* the caller asks the running execute to cancel; execute (lines 54-127) takes no such
\* signal and reads none, so nothing but the caller's own record changes
RaiseCancel ==
    /\ pc \notin {"idle", "done"}
    /\ cancel_requested_at = -1
    /\ cancel_requested_at' = Len(requests)
    /\ UNCHANGED <<provider_failed, adapterVars, contextVars>>
    /\ UNCHANGED <<max_iterations, providers, tools, messages, pc, iteration, outcome, returned>>
    /\ UNCHANGED taskVars
    /\ UNCHANGED logVars

NextCancel ==
    \/ Next
    \/ RaiseCancel

SpecCancel == Init /\ [][NextCancel]_vars

(* -------------------- execute under a fair scheduler -------------------- *)
\* lines 80-101, 119-127: the steps execute takes by itself once it was called
OrchestratorStep ==
    \/ CallProviderFinal
    \/ CallProvider
    \/ Gather

\* lines 91, 101: the awaited provider.complete returns a response or raises
ProviderAnswers ==
    \/ FinalResponse
    \/ Response
    \/ ProviderRaises
    \/ FinalProviderRaises

\* lines 145-197: a step of some dispatched _execute_tool coroutine; the tool's execute
\* returns or raises and every awaited emission returns
ToolStep ==
    \E i \in DOMAIN task_pc :
        \/ EmitPre(i)
        \/ ToolReturns(i)
        \/ ToolRaises(i)
        \/ EmitPost(i)
        \/ EmitError(i)

\* the event loop runs a coroutine that is ready; every awaited provider call and tool
\* execution completes
Fairness ==
    /\ WF_vars(OrchestratorStep)
    /\ WF_vars(ProviderAnswers)
    /\ WF_vars(ToolStep)

\* the orchestrator with a provider that answers or raises, run by a fair event loop
SpecFair == Init /\ [][NextProviderFail]_vars /\ Fairness

(* -------------------- provider: response parsing -------------------- *)
\* Python values as the wire carries them: a tag, the text of a scalar, the items of a mapping
PyNone == [py |-> "None", s |-> <<>>, items |-> <<>>]
PyStr(s) == [py |-> "str", s |-> s, items |-> <<>>]
PyList(s) == [py |-> "list", s |-> s, items |-> <<>>]
PyDict(items) == [py |-> "dict", s |-> <<>>, items |-> items]
JSONDecodeError == [py |-> "JSONDecodeError", s |-> <<>>, items |-> <<>>]

\* line 553: json.loads on the payload texts that are drawn; every other text does not parse
json_loads(s) ==
    CASE s = <<"{\"path\": \"a\"}">> -> PyDict(<<[key |-> "path", val |-> PyStr(<<"a">>)]>>)
      [] s = <<"{}">> -> PyDict(<<>>)
      [] s = <<"[1, 2]">> -> PyList(<<"[1, 2]">>)
      [] s = <<"\"abc\"">> -> PyStr(<<"abc">>)
      [] s = <<"null">> -> PyNone
      [] OTHER -> JSONDecodeError

\* lines 550-557: a string is decoded; one that does not parse is handed back as it is
_maybe_json(data) ==
    IF data.py = "str"
    THEN (IF json_loads(data.s) = JSONDecodeError THEN data ELSE json_loads(data.s))
    ELSE data

\* lines 559-564
_ensure_dict(value) ==
    IF value.py = "dict" THEN value
    ELSE IF value.py = "None" THEN PyDict(<<>>)
    ELSE PyDict(<<[key |-> "value", val |-> value]>>)

RECURSIVE JoinNewline(_)
JoinNewline(parts) ==
    IF parts = <<>> THEN <<>>
    ELSE IF Len(parts) = 1 THEN Head(parts)
    ELSE Head(parts) \o <<"\n">> \o JoinNewline(Tail(parts))

RECURSIVE _collect_text(_)
\* lines 567-574: the non-empty texts of a list of entries
_collect_text(entries) ==
    IF entries = <<>> THEN <<>>
    ELSE (IF Head(entries).text # <<>> THEN <<Head(entries).text>> ELSE <<>>)
         \o _collect_text(Tail(entries))

\* lines 566-586
_format_reasoning_text(reasoning_item) ==
    IF _collect_text(reasoning_item.summary) # <<>>
    THEN JoinNewline(_collect_text(reasoning_item.summary))
    ELSE IF _collect_text(reasoning_item.content) # <<>>
    THEN JoinNewline(_collect_text(reasoning_item.content))
    ELSE reasoning_item.text

TextContent(text, raw) == [type |-> "text", text |-> text, raw |-> raw]
ThinkingContent(text, raw) == [type |-> "thinking", text |-> text, raw |-> raw]
ToolCallContent(id, name, arguments, raw) ==
    [type |-> "tool_call", id |-> id, name |-> name, arguments |-> arguments, raw |-> raw]
ToolResultContent(tool_call_id, output, raw) ==
    [type |-> "tool_result", tool_call_id |-> tool_call_id, output |-> output, raw |-> raw]
\* line 645: the ToolCall the provider builds
ProviderToolCall(tool, arguments, id) == [tool |-> tool, arguments |-> arguments, id |-> id]

\* what one output item adds to the parse
Parsed(segments, blocks, calls) == [segments |-> segments, blocks |-> blocks, calls |-> calls]

RECURSIVE ParseMessageContent(_)
\* lines 603-622: the content items of a message item that carry a non-empty text
ParseMessageContent(block_content) ==
    IF block_content = <<>> THEN Parsed(<<>>, <<>>, <<>>)
    ELSE LET content_item == Head(block_content)
             rest == ParseMessageContent(Tail(block_content))
         IN IF content_item.text # <<>>
            THEN Parsed(<<content_item.text>> \o rest.segments,
                        <<TextContent(content_item.text, content_item)>> \o rest.blocks, <<>>)
            ELSE rest

\* lines 636-639: the identifier and the raw arguments of a function_call item
CallIdOf(item) == IF item.id # "" THEN item.id ELSE item.call_id
ArgumentsRawOf(item) == IF item.arguments # PyNone THEN item.arguments ELSE item.input

\* lines 635-646
ParseFunctionCall(item) ==
    LET parsed_arguments == _ensure_dict(_maybe_json(ArgumentsRawOf(item)))
    IN Parsed(<<>>,
              <<ToolCallContent(CallIdOf(item), item.name, parsed_arguments, item)>>,
              <<ProviderToolCall(item.name, parsed_arguments, CallIdOf(item))>>)

\* a parse that keeps an item of unknown type as an empty text block
ParseItemKeepsUnknown(item) ==
    CASE item.type = "message" -> ParseMessageContent(item.content)
      [] item.type = "reasoning" ->
            Parsed(<<>>, <<ThinkingContent(_format_reasoning_text(item), item)>>, <<>>)
      [] item.type \in {"tool_call", "function_call"} -> ParseFunctionCall(item)
      [] OTHER -> Parsed(<<>>, <<TextContent(<<>>, item)>>, <<>>)

\* lines 599-655: one output item, by its type; an item of any other type adds nothing
ParseItem(item) ==
    CASE item.type = "message" -> ParseMessageContent(item.content)
      [] item.type = "reasoning" ->
            Parsed(<<>>, <<ThinkingContent(_format_reasoning_text(item), item)>>, <<>>)
      [] item.type \in {"tool_call", "function_call"} -> ParseFunctionCall(item)
      [] item.type = "function_call_output" ->
            Parsed(<<>>,
                   <<ToolResultContent(IF item.call_id # "" THEN item.call_id ELSE item.id,
                                       _maybe_json(item.output), item)>>, <<>>)
      [] OTHER -> Parsed(<<>>, <<>>, <<>>)

RECURSIVE ParseItems(_)
ParseItems(output_items) ==
    IF output_items = <<>> THEN Parsed(<<>>, <<>>, <<>>)
    ELSE LET first == ParseItem(Head(output_items))
             rest == ParseItems(Tail(output_items))
         IN Parsed(first.segments \o rest.segments, first.blocks \o rest.blocks,
                   first.calls \o rest.calls)

\* lines 540-659 without the usage counts
_parse_openai_response(output_items) ==
    LET parsed == ParseItems(output_items)
    IN [content |-> JoinBlank(parsed.segments),
        tool_calls |-> parsed.calls,
        content_blocks |-> parsed.blocks]

\* the wire forms of output items
FunctionCallItem(id, call_id, name, arguments) ==
    [type |-> "function_call", id |-> id, call_id |-> call_id, name |-> name,
     arguments |-> arguments, input |-> PyNone]
ReasoningItem(summary_text) ==
    [type |-> "reasoning", summary |-> <<[type |-> "summary_text", text |-> summary_text]>>,
     content |-> <<>>, text |-> <<>>]
UnknownItem == [type |-> "web_search_call", id |-> "ws1"]

\* the argument payloads a function_call item is drawn with: JSON objects, JSON that is
\* not an object, text that is not JSON, an absent payload, an already decoded mapping
ArgumentPayloads ==
    {PyStr(<<"{\"path\": \"a\"}">>), PyStr(<<"{}">>), PyStr(<<"[1, 2]">>), PyStr(<<"\"abc\"">>),
     PyStr(<<"null">>), PyStr(<<"{bad">>), PyStr(<<>>), PyNone,
     PyDict(<<[key |-> "path", val |-> PyStr(<<"a">>)]>>)}

\* the output items a wire response is drawn from
WireItems ==
    {MessageItem(<<Texts[1]>>), MessageItem(<<>>), ReasoningItem(<<Tokens[1]>>), UnknownItem,
     FunctionCallItem("fc1", CallIds[1], "read", PyStr(<<"{\"path\": \"a\"}">>))}
    \cup {FunctionCallItem("", CallIds[1], "read", payload) : payload \in ArgumentPayloads}

\* the output arrays handed to the response parsing
WireResponses == SeqsUpTo(WireItems, MaxItems)

(* -------------------- provider: parse_tool_calls -------------------- *)
\* an optional field of a ProviderResponse: given with a value, or missing (None)
Some(v) == [some |-> TRUE, v |-> v]
Missing == [some |-> FALSE, v |-> <<>>]
\* Python's truth test on an optional list
Truthy(field) == field.some /\ field.v # <<>>
ProviderResponse(tcs, content_blocks, raw) ==
    [tool_calls |-> tcs, content_blocks |-> content_blocks, raw |-> raw]

\* line 249: block.arguments or {}
ArgumentsOrEmpty(arguments) == IF arguments \in {PyNone, PyDict(<<>>)} THEN PyDict(<<>>) ELSE arguments

\* a reconstruction that knows only ToolCallContent blocks
ReconstructContentOnly(content_blocks) ==
    LET found == SelectSeq(content_blocks, LAMBDA block : block.type = "tool_call" /\ "arguments" \in DOMAIN block)
    IN [i \in 1..Len(found) |-> ProviderToolCall(found[i].name, found[i].arguments, found[i].id)]

RECURSIVE Reconstruct(_)
\* lines 244-252: one ToolCall per ToolCallContent or ToolCallBlock, in block order
Reconstruct(content_blocks) ==
    IF content_blocks = <<>> THEN <<>>
    ELSE LET block == Head(content_blocks)
         IN (IF block.type = "tool_call" /\ "arguments" \in DOMAIN block
             THEN <<ProviderToolCall(block.name, ArgumentsOrEmpty(block.arguments), block.id)>>
             ELSE IF block.type = "tool_call" /\ "input" \in DOMAIN block
             THEN <<ProviderToolCall(block.name, block.input, block.id)>>
             ELSE <<>>) \o Reconstruct(Tail(content_blocks))

\* a derivation that looks at the content blocks before the explicit list
parse_tool_calls_blocks_first(resp) ==
    IF Reconstruct(resp.content_blocks.v) # <<>> THEN Reconstruct(resp.content_blocks.v)
    ELSE resp.tool_calls.v

\* lines 233-266
parse_tool_calls(resp) ==
    IF Truthy(resp.tool_calls) THEN resp.tool_calls.v
    ELSE IF Reconstruct(resp.content_blocks.v) # <<>>
    THEN Reconstruct(resp.content_blocks.v)
    ELSE IF resp.raw.some THEN _parse_openai_response(resp.raw.v).tool_calls
    ELSE <<>>

\* the explicit tool_calls lists, content blocks and raw payloads a response is drawn with
SampleToolCalls ==
    {ProviderToolCall("get_weather", PyDict(<<[key |-> "location", val |-> PyStr(<<"SF">>)]>>), "call_123"),
     ProviderToolCall("read", PyDict(<<>>), CallIds[2])}
SampleBlocks ==
    {ToolCallContent("call_456", "lookup_city", PyDict(<<[key |-> "zip", val |-> PyStr(<<"94105">>)]>>), PyNone),
     ToolCallBlock(CallIds[3], "read", PyDict(<<>>)),
     TextContent(<<Texts[1]>>, PyNone)}
SampleRaw ==
    {<<>>,
     <<FunctionCallItem("fc_raw", "call_raw", "get_weather", PyStr(<<"{\"path\": \"a\"}">>))>>,
     <<MessageItem(<<Texts[1]>>)>>,
     <<UnknownItem, FunctionCallItem("", CallIds[1], "read", PyStr(<<"{}">>))>>}

Optional(S) == {Missing} \cup {Some(v) : v \in S}

ProviderResponses ==
    {ProviderResponse(tcs, content_blocks, raw) :
        tcs \in Optional(SeqsUpTo(SampleToolCalls, MaxBlocks)),
        content_blocks \in Optional(SeqsUpTo(SampleBlocks, MaxBlocks)),
        raw \in Optional(SampleRaw)}

(* -------------------- provider: tool-schema normalization -------------------- *)
\* a value with a model_dump method that exports the given mapping
PyModel(items) == [py |-> "model", s |-> <<>>, items |-> items]
\* lines 495 and 526: the schemas synthesized when a tool has none
WireDefaultSchema ==
    PyDict(<<[key |-> "type", val |-> PyStr(<<"object">>)], [key |-> "properties", val |-> PyDict(<<>>)]>>)
DefaultSchema ==
    PyDict(<<[key |-> "type", val |-> PyStr(<<"object">>)], [key |-> "properties", val |-> PyDict(<<>>)],
             [key |-> "required", val |-> PyList(<<"[]">>)]>>)
\* a schema a tool declares
PathSchema ==
    PyDict(<<[key |-> "type", val |-> PyStr(<<"object">>)],
             [key |-> "properties", val |-> PyDict(<<[key |-> "path", val |-> PyDict(<<>>)]>>)]>>)

\* a tool as handed to the normalization: a dict ("dict") with the given keys, a model with
\* model_dump ("model") exporting the given keys, or a plain object ("object") with the
\* given attributes; name "" stands for no name
Tool(kind, keys, name, parameters) ==
    [kind |-> kind, keys |-> keys, type |-> "function", name |-> name, description |-> <<>>,
     parameters |-> parameters]
\* line 484: a None entry of the list
NoTool == Tool("none", {}, "", PyNone)

\* tool_data.get(key): the dict itself or what model_dump exports
DataName(tool) == IF tool.kind \in {"dict", "model"} /\ "name" \in tool.keys THEN tool.name ELSE ""
DataParameters(tool) ==
    IF tool.kind \in {"dict", "model"} /\ "parameters" \in tool.keys THEN tool.parameters ELSE PyNone
\* getattr(tool, key, None)
AttrName(tool) == IF tool.kind \in {"model", "object"} /\ "name" \in tool.keys THEN tool.name ELSE ""
AttrParameters(tool) ==
    IF tool.kind \in {"model", "object"} /\ "parameters" \in tool.keys THEN tool.parameters ELSE PyNone
AttrInputSchema(tool) ==
    IF tool.kind = "object" /\ "input_schema" \in tool.keys THEN tool.parameters ELSE PyNone

FunctionEntry(type, name, description, parameters) ==
    [type |-> type, name |-> name, description |-> description, parameters |-> parameters]

\* lines 488-497: a dict that already has the wire's keys
ConvertWireShaped(tool) ==
    <<FunctionEntry(tool.type, tool.name, tool.description,
                    IF tool.parameters \in {PyNone, PyDict(<<>>), PyStr(<<>>)}
                    THEN WireDefaultSchema ELSE tool.parameters)>>

\* lines 499-536: every other tool
ConvertOther(tool) ==
    LET name == IF DataName(tool) # "" THEN DataName(tool) ELSE AttrName(tool)
        p1 == DataParameters(tool)
        p2 == IF p1 = PyNone THEN AttrParameters(tool) ELSE p1
        p3 == IF p2 = PyNone THEN AttrInputSchema(tool) ELSE p2
        p4 == IF p3 = PyNone THEN DefaultSchema ELSE p3
        p5 == IF p4.py = "model" THEN PyDict(p4.items) ELSE p4
        parameters == IF p5.py # "dict" THEN DefaultSchema ELSE p5
    IN IF name = "" THEN <<>>
       ELSE <<FunctionEntry("function", name, tool.description, parameters)>>

\* lines 483-536: the entries one tool of the list adds
ConvertTool(tool) ==
    IF tool.kind = "none" THEN <<>>
    ELSE IF tool.kind = "dict" /\ {"type", "name", "parameters"} \subseteq tool.keys
    THEN ConvertWireShaped(tool)
    ELSE ConvertOther(tool)

RECURSIVE ConvertTools(_)
ConvertTools(tls) ==
    IF tls = <<>> THEN <<>> ELSE ConvertTool(Head(tls)) \o ConvertTools(Tail(tls))

\* lines 470-538: None for no tools and for no entry
_convert_tools_to_openai_format(tls) ==
    IF tls = <<>> \/ ConvertTools(tls) = <<>> THEN Missing ELSE Some(ConvertTools(tls))

\* the tools a list is drawn from
ToolNames == {"read", "write"}
ToolShapes ==
    {Tool("dict", {"type", "name", "description", "parameters"}, name, parameters) :
        name \in ToolNames, parameters \in {PathSchema, PyNone, PyDict(<<>>), PyStr(<<"oops">>)}}
    \cup {Tool("model", {"name", "description", "parameters"}, name, parameters) :
        name \in ToolNames, parameters \in {PathSchema, PyNone, PyModel(PathSchema.items), PyStr(<<"oops">>)}}
    \cup {Tool("dict", {"name", "parameters"}, name, parameters) :
        name \in ToolNames, parameters \in {PathSchema, PyStr(<<"oops">>)}}
    \cup {Tool("dict", {"name"}, name, PyNone) : name \in ToolNames}
    \cup {Tool("object", {"name", "input_schema"}, name, PathSchema) : name \in ToolNames}
    \cup {Tool("dict", {"description"}, "", PyNone), NoTool}
ToolLists == SeqsUpTo(ToolShapes, MaxTools)

(* -------------------- provider: usage extraction -------------------- *)
\* the value of a usage field: a number, nothing (None or absent), or something not numeric
Count(n) == [py |-> "int", n |-> n]
NoCount == [py |-> "None", n |-> 0]
BadCount == [py |-> "str", n |-> 0]

\* lines 664-668
_safe_int(value) == IF value.py = "int" THEN value.n ELSE 0

\* getattr(usage_obj, field, None) and usage_obj.get(field)
UsageAttr(usage_obj, field) == IF usage_obj.shape = "object" THEN usage_obj[field] ELSE NoCount
UsageGet(usage_obj, field) == IF usage_obj.shape = "dict" THEN usage_obj[field] ELSE NoCount
\* lines 683-685, 689-691, 695-697: the attribute, else the key of a mapping
UsageField(usage_obj, field) ==
    IF UsageAttr(usage_obj, field) = NoCount THEN UsageGet(usage_obj, field)
    ELSE UsageAttr(usage_obj, field)

\* lines 683-693: the current name, else the legacy name as an attribute only
WithLegacy(usage_obj, field, legacy) ==
    IF UsageField(usage_obj, field) = NoCount THEN UsageAttr(usage_obj, legacy)
    ELSE UsageField(usage_obj, field)

\* lines 661-723; the cached and reasoning counts are read from the usage itself, not from
\* its input_tokens_details and output_tokens_details
_extract_usage(usage_obj) ==
    IF usage_obj.shape = "none"
    THEN [input |-> 0, output |-> 0, total |-> 0,
          cached_input_tokens |-> NoCount, reasoning_output_tokens |-> NoCount]
    ELSE [input |-> _safe_int(WithLegacy(usage_obj, "input_tokens", "prompt_tokens")),
          output |-> _safe_int(WithLegacy(usage_obj, "output_tokens", "completion_tokens")),
          total |-> _safe_int(UsageField(usage_obj, "total_tokens")),
          cached_input_tokens |->
              IF UsageField(usage_obj, "cached_tokens") = NoCount THEN NoCount
              ELSE Count(_safe_int(UsageField(usage_obj, "cached_tokens"))),
          reasoning_output_tokens |->
              IF UsageField(usage_obj, "reasoning_tokens") = NoCount THEN NoCount
              ELSE Count(_safe_int(UsageField(usage_obj, "reasoning_tokens")))]

\* the usage objects of a response: none, an object with attributes, or a mapping
Usages ==
    {[shape |-> "none", input_tokens |-> NoCount, prompt_tokens |-> NoCount, output_tokens |-> NoCount,
      completion_tokens |-> NoCount, total_tokens |-> NoCount, cached_tokens |-> NoCount,
      reasoning_tokens |-> NoCount]}
    \cup [shape : {"object", "dict"},
          input_tokens : {NoCount, BadCount, Count(11)},
          prompt_tokens : {NoCount, Count(12)},
          output_tokens : {NoCount, BadCount, Count(21)},
          completion_tokens : {NoCount, Count(22)},
          total_tokens : {NoCount, BadCount, Count(33)},
          cached_tokens : {NoCount, Count(5)},
          reasoning_tokens : {NoCount, Count(6)}]

(* -------------------- provider: mount -------------------- *)
\* the credentials mount may find: config['api_key'] and the environment's OPENAI_API_KEY,
\* "" for one that is not set
Credentials == [config_api_key : {"", "sk-config"}, env_api_key : {"", "sk-env"}]

\* lines 33-68: what mount does, as its result, whether it raised, and what it mounted at
\* the coordinator's providers mount point
mount(credentials) ==
    LET api_key == IF credentials.config_api_key # "" THEN credentials.config_api_key
                   ELSE credentials.env_api_key
    IN IF api_key = ""
       THEN [raised |-> FALSE, result |-> "None", mounted |-> <<>>, api_key |-> ""]
       ELSE [raised |-> FALSE, result |-> "cleanup", mounted |-> <<"openai-v2">>, api_key |-> api_key]

(* -------------------- the provider's conversions on their own -------------------- *)
\* content blocks an assistant message is built from
ContentBlocks ==
    {TextBlock(<<Texts[1]>>), TextBlock(<<Texts[2]>>),
     ToolCallBlock(CallIds[1], "read", Args[1]), ReasoningBlock(<<Tokens[1]>>)}

\* the assistant messages handed to the request translation
AssistantMessages == {Message("assistant", content) : content \in SeqsUpTo(ContentBlocks, MaxBlocks)}

\* the function_call items a round trip is drawn from
FunctionCallItems == {item \in WireItems : item.type = "function_call"}

\* the provider object after construction, before a conversion is applied to an input
InitAdapter ==
    /\ max_iterations = 0
    /\ providers = <<>>
    /\ tools = <<>>
    /\ messages = <<>>
    /\ pc = "idle"
    /\ iteration = 0
    /\ tool_calls = <<>>
    /\ task_pc = <<>>
    /\ tool_results = <<>>
    /\ task_log = <<>>
    /\ completed = <<>>
    /\ outcome = "none"
    /\ returned = <<>>
    /\ requests = <<>>
    /\ responses = <<>>
    /\ response = ChatResponse(<<>>)
    /\ idsUsed = 0
    /\ wire_requests = 0
    /\ provider_failed = FALSE
    /\ cancel_requested_at = -1
    /\ adapter_pc = "ready"
    /\ adapter_in \in [op : {"convert"}, arg : AssistantMessages]
                     \cup [op : {"parse"}, arg : WireResponses]
                     \cup [op : {"roundtrip"}, arg : FunctionCallItems]
                     \cup [op : {"tool_calls"}, arg : ProviderResponses]
                     \cup [op : {"tools"}, arg : ToolLists]
                     \cup [op : {"usage"}, arg : Usages]
                     \cup [op : {"mount"}, arg : Credentials]
    /\ adapter_out = <<>>
    /\ lists = <<>>
    /\ messages_ref = 0
    /\ held = <<>>

\* what every conversion leaves alone
orchVars == <<max_iterations, providers, tools, messages, pc, iteration, outcome, returned,
              provider_failed, cancel_requested_at, lists, messages_ref, held>>

\* lines 459-462: an assistant message is translated to wire items
ConvertAssistant ==
    /\ adapter_pc = "ready"
    /\ adapter_in.op = "convert"
    /\ adapter_out' = _convert_messages_to_openai_format(<<adapter_in.arg>>)
    /\ adapter_pc' = "done"
    /\ UNCHANGED adapter_in
    /\ UNCHANGED orchVars
    /\ UNCHANGED taskVars
    /\ UNCHANGED logVars

\* line 208: the output array of a wire response is parsed
ParseResponse ==
    /\ adapter_pc = "ready"
    /\ adapter_in.op = "parse"
    /\ adapter_out' = _parse_openai_response(adapter_in.arg)
    /\ adapter_pc' = "done"
    /\ UNCHANGED adapter_in
    /\ UNCHANGED orchVars
    /\ UNCHANGED taskVars
    /\ UNCHANGED logVars

\* lines 635-646, orchestrator line 114, lines 290-304: a function_call item is parsed, its
\* ToolCall becomes the ToolCallBlock of the assistant message, and that block is
\* translated back to a wire item
RoundTrip ==
    /\ adapter_pc = "ready"
    /\ adapter_in.op = "roundtrip"
    /\ LET tc == _parse_openai_response(<<adapter_in.arg>>).tool_calls[1]
       IN adapter_out' = _convert_tool_call_block_to_function_call(
                             ToolCallBlock(tc.id, tc.tool, tc.arguments))
    /\ adapter_pc' = "done"
    /\ UNCHANGED adapter_in
    /\ UNCHANGED orchVars
    /\ UNCHANGED taskVars
    /\ UNCHANGED logVars

\* lines 233-266: the tool calls of a provider response are derived
ParseToolCalls ==
    /\ adapter_pc = "ready"
    /\ adapter_in.op = "tool_calls"
    /\ adapter_out' = parse_tool_calls(adapter_in.arg)
    /\ adapter_pc' = "done"
    /\ UNCHANGED adapter_in
    /\ UNCHANGED orchVars
    /\ UNCHANGED taskVars
    /\ UNCHANGED logVars

\* line 143: the tools of a request are normalized
ConvertToolsStep ==
    /\ adapter_pc = "ready"
    /\ adapter_in.op = "tools"
    /\ adapter_out' = _convert_tools_to_openai_format(adapter_in.arg)
    /\ adapter_pc' = "done"
    /\ UNCHANGED adapter_in
    /\ UNCHANGED orchVars
    /\ UNCHANGED taskVars
    /\ UNCHANGED logVars

\* line 658: the usage of a wire response is extracted
ExtractUsage ==
    /\ adapter_pc = "ready"
    /\ adapter_in.op = "usage"
    /\ adapter_out' = _extract_usage(adapter_in.arg)
    /\ adapter_pc' = "done"
    /\ UNCHANGED adapter_in
    /\ UNCHANGED orchVars
    /\ UNCHANGED taskVars
    /\ UNCHANGED logVars

\* lines 33-68: the provider module is mounted
Mount ==
    /\ adapter_pc = "ready"
    /\ adapter_in.op = "mount"
    /\ adapter_out' = mount(adapter_in.arg)
    /\ adapter_pc' = "done"
    /\ UNCHANGED adapter_in
    /\ UNCHANGED orchVars
    /\ UNCHANGED taskVars
    /\ UNCHANGED logVars

NextAdapter ==
    \/ ConvertAssistant
    \/ ParseResponse
    \/ RoundTrip
    \/ ParseToolCalls
    \/ ConvertToolsStep
    \/ ExtractUsage
    \/ Mount

SpecAdapter == InitAdapter /\ [][NextAdapter]_vars

(* -------------------- the context manager on its own -------------------- *)
\* how many list objects the run may create
MaxLists == 3
\* how long a list may grow
MaxLen == 2

\* the messages a caller may add
ContextMessages == {Message("user", <<TextBlock(Prompt)>>),
                    Message("assistant", <<TextBlock(<<Texts[1]>>)>>)}
\* what the holder of a returned list appends to it
Foreign == Message("system", <<TextBlock(<<Texts[2]>>)>>)

\* context lines 18-20: a fresh context, its messages bound to one empty list
InitContext ==
    /\ max_iterations = 0
    /\ providers = <<>>
    /\ tools = <<>>
    /\ messages = <<>>
    /\ pc = "idle"
    /\ iteration = 0
    /\ tool_calls = <<>>
    /\ task_pc = <<>>
    /\ tool_results = <<>>
    /\ task_log = <<>>
    /\ completed = <<>>
    /\ outcome = "none"
    /\ returned = <<>>
    /\ requests = <<>>
    /\ responses = <<>>
    /\ response = ChatResponse(<<>>)
    /\ idsUsed = 0
    /\ wire_requests = 0
    /\ provider_failed = FALSE
    /\ cancel_requested_at = -1
    /\ adapter_pc = "off"
    /\ adapter_in = <<>>
    /\ adapter_out = <<>>
    /\ lists = <<<<>>>>
    /\ messages_ref = 1
    /\ held = <<>>

\* what the context's operations and its readers leave alone
besideContext == <<max_iterations, providers, tools, pc, iteration, outcome, returned,
                   provider_failed, cancel_requested_at, adapterVars>>

\* context lines 22-29: self.messages.append(message) grows the bound list in place
AddMessage ==
    /\ Len(lists[messages_ref]) < MaxLen
    /\ \E message \in ContextMessages :
        /\ lists' = [lists EXCEPT ![messages_ref] = add_message(@, message)]
        /\ messages' = add_message(messages, message)
    /\ UNCHANGED <<messages_ref, held>>
    /\ UNCHANGED besideContext
    /\ UNCHANGED taskVars
    /\ UNCHANGED logVars

\* get_messages that returns the bound list itself
GetMessagesAliased ==
    /\ Len(held) < MaxLists - 1
    /\ held' = Append(held, [ref |-> messages_ref, seen |-> lists[messages_ref]])
    /\ UNCHANGED <<lists, messages_ref, messages>>
    /\ UNCHANGED besideContext
    /\ UNCHANGED taskVars
    /\ UNCHANGED logVars

\* context lines 31-33: self.messages.copy() is a new list with the same messages, in order
GetMessages ==
    /\ Len(lists) < MaxLists
    /\ lists' = Append(lists, get_messages(lists[messages_ref]))
    /\ held' = Append(held, [ref |-> Len(lists) + 1, seen |-> get_messages(lists[messages_ref])])
    /\ UNCHANGED <<messages_ref, messages>>
    /\ UNCHANGED besideContext
    /\ UNCHANGED taskVars
    /\ UNCHANGED logVars

\* context lines 43-46: self.messages = [] binds a new empty list; the old one is left as it is
Clear ==
    /\ Len(lists) < MaxLists
    /\ lists' = Append(lists, <<>>)
    /\ messages_ref' = Len(lists) + 1
    /\ messages' = <<>>
    /\ UNCHANGED held
    /\ UNCHANGED besideContext
    /\ UNCHANGED taskVars
    /\ UNCHANGED logVars

\* context lines 31-33: the holder of a returned list appends to it
HolderAppends(k) ==
    /\ Len(lists[held[k].ref]) < MaxLen + 1
    /\ lists' = [lists EXCEPT ![held[k].ref] = Append(@, Foreign)]
    /\ held' = [held EXCEPT ![k].seen = Append(@, Foreign)]
    /\ UNCHANGED <<messages_ref, messages>>
    /\ UNCHANGED besideContext
    /\ UNCHANGED taskVars
    /\ UNCHANGED logVars

\* context lines 31-33: the holder of a returned list removes its first element
HolderRemoves(k) ==
    /\ lists[held[k].ref] # <<>>
    /\ held[k].seen # <<>>
    /\ lists' = [lists EXCEPT ![held[k].ref] = Tail(@)]
    /\ held' = [held EXCEPT ![k].seen = Tail(@)]
    /\ UNCHANGED <<messages_ref, messages>>
    /\ UNCHANGED besideContext
    /\ UNCHANGED taskVars
    /\ UNCHANGED logVars

NextContext ==
    \/ AddMessage
    \/ GetMessages
    \/ Clear
    \/ \E k \in DOMAIN held : HolderAppends(k)
    \/ \E k \in DOMAIN held : HolderRemoves(k)

SpecContext == InitContext /\ [][NextContext]_vars

(* ------------------------------ properties ----------------------------- *)
HasEvent(i, e) == \E x \in DOMAIN task_log[i] : task_log[i][x] = e
\* the function message expected for a call id and an output
ExpectedFunctionMessage(id, output) ==
    [role |-> "function",
     content |-> <<[type |-> "tool_result", tool_call_id |-> id, output |-> output]>>,
     tool_call_id |-> "None"]
\* the output expected in history for what coroutine i returned
ExpectedOutput(i) ==
    IF tool_results[i].success THEN tool_results[i].output
    ELSE <<"Error: ">> \o tool_results[i].error
\* the outputs a call's own execution can leave in history
OwnOutputs(tc) ==
    IF tc.name = "read"
    THEN {<<"out:", tc.arguments>>,
          <<"Error: ", "{'message': ", "denied:", tc.arguments, "}">>,
          <<"Error: ", "{'message': ", "boom:", tc.arguments, "}">>}
    ELSE {<<"Error: ", "{'message': ", "Tool '", tc.name, "' not found", "}">>}
\* where the messages of the turn just gathered start
TurnBase == Len(messages) - Len(tool_calls)

\* C1: with a provider registered and max_iterations = N >= 1, if the first k-1
\* responses each carry a tool call and the k-th (k <= N) carries none, execute has
\* made exactly k provider calls and has returned normally.
C1_StopsAtKthCall ==
    providers # <<>> =>
        \A k \in 1..max_iterations :
            (/\ Len(responses) >= k
             /\ responses[k] = <<>>
             /\ \A j \in 1..(k - 1) : responses[j] # <<>>)
            => /\ Len(requests) = k
               /\ Len(responses) = k
               /\ pc = "done"
               /\ outcome = "returned"

C1_Witness ==
    /\ max_iterations = 2
    /\ Len(requests) = 2
    /\ Len(responses) = 2
    /\ responses[1] # <<>>
    /\ responses[2] = <<>>
    /\ pc = "done"
    /\ outcome = "returned"

\* C2: with a provider whose response to every tool-enabled call carries a tool call,
\* execute makes exactly max_iterations + 1 provider calls, the first max_iterations
\* with the full tool-spec set and the last with an empty tool set, and returns
\* normally.
C2_CapGivesNPlusOneCalls ==
    (/\ providers # <<>>
     /\ \A j \in 1..Len(responses) : j <= max_iterations => responses[j] # <<>>)
    => /\ Len(requests) <= max_iterations + 1
       /\ \A j \in 1..Len(requests) :
            requests[j].tools = IF j <= max_iterations THEN <<[name |-> "read"]>> ELSE <<>>
       /\ outcome # "raised"
       /\ (pc = "done") <=> (Len(responses) = max_iterations + 1)
       /\ (pc = "done") => (Len(requests) = max_iterations + 1 /\ outcome = "returned")

C2_Witness ==
    /\ max_iterations = 2
    /\ pc = "done"
    /\ outcome = "returned"
    /\ Len(requests) = 3
    /\ responses[1] # <<>>
    /\ responses[2] # <<>>
    /\ requests[2].tools # <<>>
    /\ requests[3].tools = <<>>

\* C3: the step that serves the forced-final response executes no tool, appends no
\* function message (only one assistant message with the response's text), leaves
\* the iteration counter alone and ends execute, returning the response's text,
\* also when the response carries tool calls.
C3_ForcedFinalNotToolBearing ==
    [][pc = "awaiting_final" =>
        /\ UNCHANGED <<tool_calls, task_pc, tool_results, task_log, completed>>
        /\ iteration' = iteration
        /\ messages' = Append(messages,
                [role |-> "assistant",
                 content |-> <<[type |-> "text", text |-> _extract_text(response'.content)]>>,
                 tool_call_id |-> "None"])
        /\ pc' = "done"
        /\ outcome' = "returned"
        /\ returned' = _extract_text(response'.content)]_vars

C3_Witness ==
    /\ pc = "done"
    /\ outcome = "returned"
    /\ requests[Len(requests)].tools = <<>>
    /\ response.tool_calls # <<>>
    /\ messages[Len(messages)].role = "assistant"
    /\ iteration = max_iterations

\* C4: when gather has returned, the function messages of the turn stand in history
\* in the order of the response's tool calls, the i-th with the i-th call's id and
\* the output of what the i-th call's own coroutine returned, whatever the order in
\* which the coroutines finished.
C4_ResultsInRequestOrder ==
    pc = "loop" =>
        \A i \in DOMAIN tool_calls :
            /\ task_pc[i] = "done"
            /\ messages[TurnBase + i] = ExpectedFunctionMessage(tool_calls[i].id, ExpectedOutput(i))
            /\ ExpectedOutput(i) \in OwnOutputs(tool_calls[i])

C4_Witness ==
    /\ pc = "loop"
    /\ Len(tool_calls) = 2
    /\ completed = <<2, 1>>
    /\ messages[Len(messages) - 1].content[1].tool_call_id = tool_calls[1].id
    /\ messages[Len(messages)].content[1].tool_call_id = tool_calls[2].id

\* the number of ToolResult blocks with the given call id in a message list
AnswersIn(msgs, id) ==
    Cardinality({<<m, b>> \in (DOMAIN msgs) \X (1..MaxBlocks) :
                    /\ msgs[m].role = "function"
                    /\ b \in DOMAIN msgs[m].content
                    /\ msgs[m].content[b].type = "tool_result"
                    /\ msgs[m].content[b].tool_call_id = id})

\* C5: in the message list of every provider request, every tool call of every
\* earlier response is answered by exactly one ToolResult block with its id, and
\* every function message holds exactly one block, a ToolResult.
C5_EveryCallAnsweredOnce ==
    \A j \in DOMAIN requests :
        /\ \A r \in 1..(j - 1) : \A c \in DOMAIN responses[r] :
               AnswersIn(requests[j].messages, responses[r][c].id) = 1
        /\ \A m \in DOMAIN requests[j].messages :
               requests[j].messages[m].role = "function"
               => /\ Len(requests[j].messages[m].content) = 1
                  /\ requests[j].messages[m].content[1].type = "tool_result"

C5_Witness ==
    /\ Len(requests) = 2
    /\ Len(responses[1]) = 2
    /\ AnswersIn(requests[2].messages, responses[1][1].id) = 1
    /\ AnswersIn(requests[2].messages, responses[1][2].id) = 1

\* C6: when a tool's execute raised in a coroutine, that coroutine ends with an
\* error result and not with the exception, the turn can always go on, execute
\* does not raise, and once gather has returned every call of the turn, the
\* failing one and its siblings, has its own result in history.
C6_RaisingToolSparesSiblings ==
    \A i \in DOMAIN task_pc :
        HasEvent(i, "execute:raised")
        => /\ task_pc[i] \in {"error_raised", "done"}
           /\ tool_results[i] =
                [success |-> FALSE, output |-> <<>>, set |-> TRUE,
                 error |-> <<"{'message': ", "boom:", tool_calls[i].arguments, "}">>]
           /\ outcome # "raised"
           /\ (pc \in {"gathering", "loop"}) => ENABLED Next
           /\ (pc # "gathering")
              => \A j \in DOMAIN tool_calls :
                    /\ task_pc[j] = "done"
                    /\ LET msgs == IF pc = "loop" THEN messages ELSE requests[Len(requests)].messages
                           at == CHOOSE m \in DOMAIN msgs :
                                    /\ msgs[m].role = "assistant"
                                    /\ msgs[m].content[1].type = "tool_call"
                                    /\ msgs[m].content[1].id = tool_calls[1].id
                       IN msgs[at + j] = ExpectedFunctionMessage(tool_calls[j].id, ExpectedOutput(j))
                    /\ ExpectedOutput(j) \in OwnOutputs(tool_calls[j])

C6_Witness ==
    /\ pc = "awaiting"
    /\ Len(tool_calls) = 2
    /\ HasEvent(1, "execute:raised")
    /\ HasEvent(2, "execute:returned")
    /\ tool_results[2].success
    /\ completed = <<2, 1>>

\* C7: a tool call whose name is not registered invokes no tool's execute, does not
\* make its coroutine or execute raise, and gets a function message whose output
\* begins with "Error:".
C7_UnknownToolIsAnError ==
    \A i \in DOMAIN tool_calls :
        tool_calls[i].name = "nope"
        => /\ ~HasEvent(i, "execute")
           /\ task_pc[i] # "raised"
           /\ outcome # "raised"
           /\ (pc = "loop") =>
                /\ messages[TurnBase + i].role = "function"
                /\ messages[TurnBase + i].content[1].tool_call_id = tool_calls[i].id
                /\ Head(messages[TurnBase + i].content[1].output) = "Error: "

C7_Witness ==
    /\ pc = "loop"
    /\ \E i \in DOMAIN tool_calls :
        /\ tool_calls[i].name = "nope"
        /\ Head(messages[TurnBase + i].content[1].output) = "Error: "
        /\ task_log[i] = <<"tool:pre", "tool:error">>

\* C8: an emission (tool:pre, tool:post, tool:error) that raises never makes a
\* tool coroutine or execute end with an exception.
C8_EmissionFailureNeverPropagates ==
    providers # <<>> =>
        /\ outcome # "raised"
        /\ \A i \in DOMAIN task_pc : task_pc[i] # "raised"

RECURSIVE IsSubSeq(_, _)
\* every element of s occurs in t, in s's order
IsSubSeq(s, t) ==
    IF s = <<>> THEN TRUE
    ELSE IF t = <<>> THEN FALSE
    ELSE IF Head(s) = Head(t) THEN IsSubSeq(Tail(s), Tail(t))
    ELSE IsSubSeq(s, Tail(t))

\* C9: once a response has been served, the assistant message appended for it holds
\* every block of the response (Text, Reasoning, ToolCall), in the response's order.
C9_AssistantKeepsEveryBlock ==
    (requests # <<>> /\ Len(responses) = Len(requests))
    => LET at == Len(requests[Len(requests)].messages) + 1
       IN /\ messages[at].role = "assistant"
          /\ IsSubSeq(response.content, messages[at].content)

\* C10: at provider call N+1 the translated request holds, unchanged, every
\* continuity token of a Reasoning block of response N.
C10_TokenReachesNextRequest ==
    (pc \in {"awaiting", "awaiting_final"} /\ Len(requests) >= 2)
    => \A p \in DOMAIN response.content :
          response.content[p].type = "reasoning"
          => \E item \in Range(_convert_messages_to_openai_format(requests[Len(requests)].messages)) :
                /\ "type" \in DOMAIN item
                /\ item.type = "reasoning"
                /\ item.content = response.content[p].content

\* C11 as stated, for every iteration cap: when the provider's first response has no tool
\* calls, execute has made exactly one provider call and the history is exactly the user
\* prompt followed by one assistant message.
C11_AnyCap_OneCallTwoMessages ==
    (Len(responses) >= 1 /\ responses[1] = <<>>) =>
        /\ pc = "done" /\ outcome = "returned"
        /\ Len(requests) = 1
        /\ Len(messages) = 2
        /\ messages[1] = [role |-> "user", content |-> <<TextBlock(Prompt)>>, tool_call_id |-> None]
        /\ messages[2].role = "assistant"

\* C11 (amended): with an iteration cap of at least 1, when the provider's first response
\* has no tool calls, execute has made exactly one provider call and the history is exactly
\* the user prompt followed by one assistant message.
C11_OneCallTwoMessages ==
    (max_iterations >= 1 /\ Len(responses) >= 1 /\ responses[1] = <<>>) =>
        /\ pc = "done" /\ outcome = "returned"
        /\ Len(requests) = 1
        /\ Len(messages) = 2
        /\ messages[1] = [role |-> "user", content |-> <<TextBlock(Prompt)>>, tool_call_id |-> None]
        /\ messages[2].role = "assistant"

\* a first response without tool calls ended execute under a cap of at least 1
C11_Witness ==
    /\ max_iterations >= 1
    /\ pc = "done"
    /\ Len(responses) = 1 /\ responses[1] = <<>>
    /\ Len(messages) = 2

\* C12: during execute the history only grows at its end: every step leaves the messages
\* already appended in place, in the same order and with the same contents.
C12_HistoryAppendOnly ==
    [][/\ Len(messages) <= Len(messages')
       /\ \A i \in 1..Len(messages) : messages'[i] = messages[i]]_vars

\* a history that grew over a whole tool turn and the call after it
C12_Witness ==
    /\ Len(messages) >= 4
    /\ \E i \in 1..Len(messages) : messages[i].role = "function"
    /\ Len(requests) >= 2

\* C13: a provider call is started only when no earlier provider call is unanswered, every
\* tool execution of the preceding turn has finished, and the history already ends with the
\* preceding response's assistant message followed by one function message per tool call;
\* the call that starts carries that history.
C13_ProviderCallsSequential ==
    [][Len(requests') > Len(requests) =>
        /\ Len(requests') = Len(requests) + 1
        /\ Len(responses) = Len(requests)
        /\ \A i \in DOMAIN task_pc : task_pc[i] = "done"
        /\ (tool_calls # <<>>) =>
              LET n == Len(tool_calls)
                  base == Len(messages) - n
              IN /\ base >= 1
                 /\ messages[base].role = "assistant"
                 /\ \A i \in 1..n :
                        /\ messages[base + i].role = "function"
                        /\ messages[base + i].content[1].tool_call_id = tool_calls[i].id
        /\ LET sent == requests'[Len(requests')].messages
           IN /\ Len(sent) >= Len(messages)
              /\ \A i \in 1..Len(messages) : sent[i] = messages[i]]_vars

\* a second provider call in flight after a turn of two tool executions
C13_Witness ==
    /\ pc = "awaiting"
    /\ Len(requests) = 2
    /\ Len(tool_calls) = 2

\* C15: with no provider registered, execute ends by raising, and no provider call and no
\* tool execution is ever attempted.
C15_NoProviderRaisesFirst ==
    providers = <<>> =>
        /\ pc \in {"idle", "done"}
        /\ (pc = "done") => (outcome = "raised")
        /\ requests = <<>>
        /\ wire_requests = 0
        /\ tool_calls = <<>>
        /\ \A i \in DOMAIN task_log : task_log[i] = <<>>

\* execute has raised for want of a provider
C15_Witness ==
    /\ providers = <<>>
    /\ pc = "done"
    /\ outcome = "raised"

\* the message m of call i's failure: the unknown-tool text, str(e) of what the tool
\* raised, or the error of the failed result the tool returned
FailureMessage(i) ==
    IF tool_calls[i].name \notin Range(tools) THEN <<"Tool '", tool_calls[i].name, "' not found">>
    ELSE IF HasEvent(i, "execute:raised") THEN <<"boom:", tool_calls[i].arguments>>
    ELSE tool_results[i].error

\* C17: once a turn's function messages are appended, the one for a failed call (unknown
\* tool, tool that raised with message m, tool that returned success=false with error m)
\* has output exactly "Error: " followed by m, the one for a successful call has the
\* string form of the tool's output, and execute has not raised.
C17_ErrorOutputIsErrorPlusMessage ==
    (pc = "loop" /\ tool_calls # <<>>) =>
        /\ outcome # "raised"
        /\ \A i \in DOMAIN tool_calls :
            messages[TurnBase + i].content[1].output =
                IF tool_results[i].success THEN tool_results[i].output
                ELSE <<"Error: ">> \o FailureMessage(i)

\* C20: every function message the loop has appended (one ToolResultBlock with
\* tool_call_id c and output o) translates to exactly one function_call_output item with
\* call_id c and output o.
C20_FunctionMessageKeepsIdAndOutput ==
    \A i \in DOMAIN messages :
        messages[i].role = "function" =>
            _convert_messages_to_openai_format(<<messages[i]>>) =
                <<[type |-> "function_call_output",
                   call_id |-> messages[i].content[1].tool_call_id,
                   output |-> messages[i].content[1].output]>>

C14_CancelStopsTheLoop ==
    (cancel_requested_at # -1) =>
        /\ Len(requests) = cancel_requested_at
        /\ (pc = "done") => (outcome = "cancelled")

\* the wire item type the claim gives each kind of content block
ItemTypeOf(block) ==
    CASE block.type = "text" -> "message"
      [] block.type = "tool_call" -> "function_call"
      [] block.type = "reasoning" -> "reasoning"

\* C19: translating an assistant message yields one wire item per content block, in the
\* blocks' order: a message item for a Text block, a function_call item for a ToolCall
\* block, a reasoning item for a Reasoning block; text blocks are not merged or moved.
C19_OneItemPerBlockInOrder ==
    (adapter_pc = "done" /\ adapter_in.op = "convert") =>
        /\ Len(adapter_out) = Len(adapter_in.arg.content)
        /\ \A i \in 1..Len(adapter_in.arg.content) :
              i <= Len(adapter_out) => adapter_out[i].type = ItemTypeOf(adapter_in.arg.content[i])

\* whether a function_call item's arguments payload is text that is not a JSON object
PayloadNotAnObject(item) ==
    /\ item.arguments.py = "str"
    /\ json_loads(item.arguments.s).py # "dict"

\* C18: for every function_call item of a parsed response whose arguments payload does not
\* parse as JSON, or parses to something that is not an object, the ToolCall produced for
\* it has the empty mapping as its arguments.
C18_BadArgumentsBecomeEmptyMapping ==
    (adapter_pc = "done" /\ adapter_in.op = "parse") =>
        LET calls == SelectSeq(adapter_in.arg, LAMBDA item : item.type = "function_call")
        IN /\ Len(adapter_out.tool_calls) = Len(calls)
           /\ \A i \in 1..Len(calls) :
                PayloadNotAnObject(calls[i]) =>
                    adapter_out.tool_calls[i].arguments = [py |-> "dict", s |-> <<>>, items |-> <<>>]

\* whether s is a prefix of t
IsPrefix(s, t) == Len(s) <= Len(t) /\ \A i \in 1..Len(s) : t[i] = s[i]

\* C27: every provider request but the forced-final one (request j with j <= max_iterations)
\* carries one tool spec per registered tool and the complete history of the moment it was
\* made, and the messages of each request are a strict prefix of those of the next request.
C27_RequestCarriesFullHistoryAndTools ==
    /\ \A j \in 1..Len(requests) :
          j <= max_iterations =>
              /\ requests[j].tools = [i \in 1..Len(tools) |-> [name |-> tools[i]]]
              /\ IsPrefix(requests[j].messages, messages)
    /\ (pc = "awaiting") => (requests[Len(requests)].messages = messages)
    /\ \A j \in 1..(Len(requests) - 1) :
          /\ IsPrefix(requests[j].messages, requests[j + 1].messages)
          /\ Len(requests[j].messages) < Len(requests[j + 1].messages)

\* a second tool-enabled request in flight after a tool turn
C27_Witness ==
    /\ pc = "awaiting"
    /\ Len(requests) = 2
    /\ Len(requests[2].messages) >= 3
    /\ requests[2].tools # <<>>

\* C28: the value execute returns is the texts of the Text blocks of the response that
\* ended it, in order, joined by a blank line; other blocks add nothing and a response
\* without a Text block gives the empty string.
C28_ReturnsJoinedTextBlocks ==
    (pc = "done" /\ outcome = "returned") =>
        LET texts == SelectSeq(response.content, LAMBDA block : block.type = "text")
        IN returned = JoinBlank([i \in 1..Len(texts) |-> texts[i].text])

\* execute returned the two texts of its terminating response, a blank line between them
C28_Witness ==
    /\ pc = "done"
    /\ outcome = "returned"
    /\ Len(response.content) = 2
    /\ returned = <<"a", "\n\n", "b">>

\* the notifications and invocations the claim allows a finished coroutine to have made
AllowedTaskLog(i) ==
    IF tool_calls[i].name \notin Range(tools) THEN <<"tool:pre", "tool:error">>
    ELSE IF HasEvent(i, "execute:raised")
         THEN <<"tool:pre", "execute", "execute:raised", "tool:error">>
         ELSE <<"tool:pre", "execute", "execute:returned", "tool:post">>

\* C29: for every dispatched tool call, tool:pre is emitted before the tool's execute is
\* invoked, execute is invoked at most once, and exactly one outcome notification follows:
\* tool:post when execute returned, tool:error when the tool is unknown or execute raised.
C29_PreThenOneOutcomeNotification ==
    \A i \in DOMAIN tool_calls :
        /\ IsPrefix(task_log[i], AllowedTaskLog(i))
        /\ (task_pc[i] = "done") => (task_log[i] = AllowedTaskLog(i))
        /\ (pc = "loop") => (task_pc[i] = "done")

\* one turn in which a tool returned, after tool:pre and before tool:post, and another
\* call named an unknown tool
C29_Witness ==
    /\ pc = "loop"
    /\ Len(tool_calls) = 2
    /\ \E i \in DOMAIN tool_calls : task_log[i] = <<"tool:pre", "execute", "execute:returned", "tool:post">>
    /\ \E i \in DOMAIN tool_calls : task_log[i] = <<"tool:pre", "tool:error">>

\* C21: a function_call item whose arguments are a well-formed JSON object, parsed into a
\* tool call and translated back, gives a function_call item with the same call_id, the
\* same name and arguments that decode to the same mapping, also when the item carries an
\* id distinct from its call_id.
C21_FunctionCallRoundTrip ==
    (/\ adapter_pc = "done"
     /\ adapter_in.op = "roundtrip"
     /\ adapter_in.arg.arguments.py = "str"
     /\ json_loads(adapter_in.arg.arguments.s).py = "dict") =>
        /\ adapter_out.type = "function_call"
        /\ adapter_out.call_id = adapter_in.arg.call_id
        /\ adapter_out.name = adapter_in.arg.name
        /\ adapter_out.arguments[2] = json_loads(adapter_in.arg.arguments.s)

\* the type discriminators the response parsing names
KnownItemTypes ==
    {"message", "reasoning", "thinking", "redacted_thinking", "tool_call", "function_call",
     "function_call_output"}

\* C30: output items of an unknown type are ignored: the text, tool calls and content
\* blocks parsed from an output array equal those parsed from the same array with the
\* unknown items removed.
C30_UnknownItemsIgnored ==
    (adapter_pc = "done" /\ adapter_in.op = "parse") =>
        adapter_out =
            _parse_openai_response(
                SelectSeq(adapter_in.arg, LAMBDA item : item.type \in KnownItemTypes))

\* an output array with an unknown item before a known one was parsed
C30_Witness ==
    /\ adapter_pc = "done"
    /\ adapter_in.op = "parse"
    /\ Len(adapter_in.arg) = 2
    /\ adapter_in.arg[1].type \notin KnownItemTypes
    /\ adapter_in.arg[2].type = "function_call"
    /\ Len(adapter_out.content_blocks) = 1

\* C22: whenever the response's explicit tool_calls list is non-empty, parse_tool_calls
\* returns that list as it is, whatever the content blocks and the raw payload hold.
C22_ExplicitToolCallsReturned ==
    (/\ adapter_pc = "done"
     /\ adapter_in.op = "tool_calls"
     /\ adapter_in.arg.tool_calls.some
     /\ adapter_in.arg.tool_calls.v # <<>>) =>
        adapter_out = adapter_in.arg.tool_calls.v

\* an explicit list of two calls was returned although content blocks and raw payload
\* hold other calls
C22_Witness ==
    /\ adapter_pc = "done"
    /\ adapter_in.op = "tool_calls"
    /\ Len(adapter_in.arg.tool_calls.v) = 2
    /\ \E i \in DOMAIN adapter_in.arg.content_blocks.v : adapter_in.arg.content_blocks.v[i].type = "tool_call"
    /\ adapter_in.arg.raw.v # <<>>
    /\ adapter_out = adapter_in.arg.tool_calls.v

\* the arguments a tool-call content block carries, under either of its two shapes
BlockArguments(block) == IF "input" \in DOMAIN block THEN block.input ELSE block.arguments

\* C23: when the explicit tool_calls list is empty or missing, parse_tool_calls returns one
\* ToolCall per tool-call content block, in block order, with the block's name, arguments
\* and id; only when there is no such block, the function_call items of the raw payload
\* parsed again; and the empty list when neither holds a tool call.
C23_ReconstructedFromBlocksThenRaw ==
    (/\ adapter_pc = "done"
     /\ adapter_in.op = "tool_calls"
     /\ adapter_in.arg.tool_calls.v = <<>>) =>
        LET blocks == SelectSeq(adapter_in.arg.content_blocks.v, LAMBDA block : block.type = "tool_call")
            items == SelectSeq(adapter_in.arg.raw.v, LAMBDA item : item.type = "function_call")
        IN IF blocks # <<>>
           THEN adapter_out = [i \in 1..Len(blocks) |->
                                  [tool |-> blocks[i].name, arguments |-> BlockArguments(blocks[i]),
                                   id |-> blocks[i].id]]
           ELSE /\ Len(adapter_out) = Len(items)
                /\ \A i \in 1..Len(items) : adapter_out[i].tool = items[i].name
                /\ adapter_out = _parse_openai_response(items).tool_calls

\* calls were reconstructed from two content blocks of the two shapes, with no explicit list
C23_Witness ==
    /\ adapter_pc = "done"
    /\ adapter_in.op = "tool_calls"
    /\ ~adapter_in.arg.tool_calls.some
    /\ Len(adapter_out) = 2
    /\ adapter_out[1].id = "call_456"
    /\ adapter_out[2].id = "c3"

\* whether a tool is a named one of the three shapes: wire-shaped dict, model, bare mapping
NamedOfThreeShapes(tool) == tool.kind \in {"dict", "model"} /\ "name" \in tool.keys /\ tool.name # ""

\* C24: for a list of named tools, each a wire-shaped object, a model with an export
\* method or a bare mapping, normalization gives exactly one function entry per tool, in
\* input order, with the tool's name and parameters that are a mapping; a tool without
\* parameters gets an empty-object schema.
C24_OneObjectSchemaEntryPerTool ==
    (/\ adapter_pc = "done"
     /\ adapter_in.op = "tools"
     /\ adapter_in.arg # <<>>
     /\ \A i \in DOMAIN adapter_in.arg : NamedOfThreeShapes(adapter_in.arg[i])) =>
        /\ adapter_out.some
        /\ Len(adapter_out.v) = Len(adapter_in.arg)
        /\ \A i \in 1..Len(adapter_in.arg) :
              i <= Len(adapter_out.v) =>
                /\ adapter_out.v[i].type = "function"
                /\ adapter_out.v[i].name = adapter_in.arg[i].name
                /\ adapter_out.v[i].parameters.py = "dict"
                /\ ("parameters" \notin adapter_in.arg[i].keys \/ adapter_in.arg[i].parameters.py = "None")
                      => /\ adapter_out.v[i].parameters.items # <<>>
                         /\ adapter_out.v[i].parameters.items[1] = [key |-> "type", val |-> [py |-> "str", s |-> <<"object">>, items |-> <<>>]]

\* the count the claim gives for a current and a legacy field of a usage
ClaimedCount(usage, field, legacy) ==
    IF usage[field].py = "int" THEN usage[field].n
    ELSE IF usage[field].py = "None" /\ usage[legacy].py = "int" THEN usage[legacy].n
    ELSE 0

\* C25: usage extraction returns input, output and total counts: a count present under its
\* current name, or else under its legacy name, in an object-shaped or mapping-shaped
\* usage is returned, and a missing or non-numeric count is 0.
C25_UsageCountsUnderEitherName ==
    (adapter_pc = "done" /\ adapter_in.op = "usage") =>
        /\ adapter_out.input = ClaimedCount(adapter_in.arg, "input_tokens", "prompt_tokens")
        /\ adapter_out.output = ClaimedCount(adapter_in.arg, "output_tokens", "completion_tokens")
        /\ adapter_out.total = (IF adapter_in.arg.total_tokens.py = "int" THEN adapter_in.arg.total_tokens.n ELSE 0)

\* C26: when neither the config nor the environment holds an API key, mounting the
\* provider raises a configuration error and no provider is registered with the coordinator.
C26_MountWithoutCredentialRaises ==
    (/\ adapter_pc = "done"
     /\ adapter_in.op = "mount"
     /\ adapter_in.arg.config_api_key = ""
     /\ adapter_in.arg.env_api_key = "") =>
        /\ adapter_out.raised
        /\ adapter_out.mounted = <<>>

\* the provider calls of this execute that carry an empty tool set
EmptyToolCalls == {j \in 1..Len(requests) : requests[j].tools = <<>>}

\* C31 as stated, for any registry: one execute issues at most max_iterations + 1
\* provider calls, the iteration counter never exceeds max_iterations, and at most
\* one call, the last, carries an empty tool set.
C31_AnyRegistry_CapBoundsCalls ==
    /\ Len(requests) <= max_iterations + 1
    /\ iteration <= max_iterations
    /\ Cardinality(EmptyToolCalls) <= 1
    /\ \A j \in EmptyToolCalls : j = Len(requests)

\* C31: when at least one tool is registered, one execute issues at most
\* max_iterations + 1 provider calls whatever the provider answers, the iteration
\* counter never exceeds max_iterations, and at most one call carries an empty
\* tool set; that call is the last one and is the call number max_iterations + 1.
C31_CapBoundsCalls ==
    /\ Len(requests) <= max_iterations + 1
    /\ iteration <= max_iterations
    /\ tools # <<>> =>
        /\ Cardinality(EmptyToolCalls) <= 1
        /\ \A j \in EmptyToolCalls : j = Len(requests) /\ j = max_iterations + 1

C31_Witness ==
    /\ tools # <<>>
    /\ max_iterations = 2
    /\ iteration = 2
    /\ Len(requests) = 3
    /\ EmptyToolCalls = {3}
    /\ responses[1] # <<>>
    /\ responses[2] # <<>>
    /\ pc = "done"

\* the steps a dispatched coroutine has left at most
TaskRank(i) ==
    CASE task_pc[i] = "pre" -> 4
      [] task_pc[i] = "executing" -> 3
      [] task_pc[i] \in {"post", "error_notfound"} -> 2
      [] task_pc[i] = "error_raised" -> 1
      [] OTHER -> 0

RECURSIVE TaskRanks(_)
TaskRanks(n) == IF n = 0 THEN 0 ELSE TaskRank(n) + TaskRanks(n - 1)

\* the steps one turn of the loop takes at most: the call, its response, the steps of
\* the dispatched coroutines, the gather
TurnSteps == 4 * MaxBlocks + 3

\* the steps execute and its coroutines have left at most
StepsLeft ==
    TaskRanks(Len(task_pc))
    + (CASE pc = "idle" -> max_iterations * TurnSteps + 3
         [] pc = "loop" -> (max_iterations - iteration) * TurnSteps + 2
         [] pc = "awaiting" -> (max_iterations - iteration) * TurnSteps + TurnSteps + 1
         [] pc = "gathering" -> (max_iterations - iteration) * TurnSteps + 3
         [] pc = "awaiting_final" -> 1
         [] OTHER -> 0)

\* C32: when every provider call and every tool execution returns or raises, an
\* execute that was called eventually ends, with its text returned or an error raised,
\* for every max_iterations and whatever the provider answers. Every step lowers the
\* count of steps left, which starts at max_iterations turns and never falls below
\* zero, so the end does not rest on the provider running out of tool calls.
C32_ExecuteTerminates ==
    /\ [](StepsLeft \in Nat)
    /\ [][StepsLeft' < StepsLeft]_vars
    /\ (pc # "idle") ~> (pc = "done" /\ outcome \in {"returned", "raised"})

C32_Witness ==
    /\ max_iterations = 2
    /\ pc = "done"
    /\ outcome = "returned"
    /\ Len(requests) = 3
    /\ requests[3].tools = <<>>
    /\ responses[1] # <<>>
    /\ responses[2] # <<>>

\* C33: the step in which execute fails for want of a provider appends exactly one
\* message to the history, the user message carrying the prompt, and raises.
C33_PromptAppendedBeforeNoProviderError ==
    [][(pc = "idle" /\ providers = <<>>) =>
        /\ outcome' = "raised"
        /\ pc' = "done"
        /\ Len(messages') = Len(messages) + 1
        /\ SubSeq(messages', 1, Len(messages)) = messages
        /\ messages'[Len(messages')] =
                [role |-> "user",
                 content |-> <<[type |-> "text", text |-> Prompt]>>,
                 tool_call_id |-> "None"]]_vars

C33_Witness ==
    /\ providers = <<>>
    /\ pc = "done"
    /\ outcome = "raised"
    /\ Len(messages) = 1
    /\ messages[1].role = "user"
    /\ messages[1].content[1].text = Prompt
    /\ requests = <<>>

\* C34: a list get_messages returned keeps the length and order its holder last left
\* it with, whatever add_message and clear calls follow, and what the holders append
\* to or remove from their lists changes nothing of what get_messages returns later:
\* that is always the messages added since the last clear, in order.
C34_GetMessagesReturnsSnapshot ==
    /\ \A k \in DOMAIN held : lists[held[k].ref] = held[k].seen
    /\ lists[messages_ref] = messages

\* a list was handed out holding one message, its holder appended to it, and the
\* context was cleared and added to afterwards
C34_Witness ==
    /\ Len(held) = 1
    /\ messages_ref > held[1].ref
    /\ Len(held[1].seen) = 2
    /\ held[1].seen[1] \in ContextMessages
    /\ held[1].seen[2] = Foreign
    /\ Len(messages) = 1
    /\ messages[1] # held[1].seen[1]

====
